---- MODULE Spec2Model ----
(***************************************************************************)
(* FAT16 file system simulator (fat_fs.h, fat_fs.c, shell.c).              *)
(*                                                                         *)
(* The partition is an array of clusters, every cluster an array of cells. *)
(* A cell stands for one field-sized unit of the on-disk layout: one byte  *)
(* of a name or of file data, the attribute byte, the first_block field,   *)
(* the size field, or one 16-bit FAT entry of the FAT region.  A directory *)
(* cluster and a data cluster are the same cells (union data_cluster): the *)
(* directory view of a cluster is decoded from its cells at fixed offsets, *)
(* whoever wrote them.                                                     *)
(*                                                                         *)
(* The geometry is scaled down: NumDataClusters data clusters instead of   *)
(* 4086, DirSlots directory entries per cluster instead of 32, NameField   *)
(* name cells instead of 18, no reserved[7] field.  Everything else keeps  *)
(* the values of fat_fs.h.                                                 *)
(***************************************************************************)
EXTENDS Integers, Sequences, FiniteSets, TLC

(***************************************************************************)
(* Bounds of the model.                                                    *)
(***************************************************************************)
NumDataClusters == 3
DirSlots == 2
NameField == 2

(***************************************************************************)
(* fat_fs.h                                                                *)
(***************************************************************************)
BOOT_BLOCK_CLUSTER == 0
FAT_CLUSTER_START == 1
FAT_CLUSTER_COUNT == 8
ROOT_DIR_CLUSTER == 9
DATA_CLUSTER_START == 10
FAT_ENTRY_FREE == 0
FAT_ENTRY_BOOT == 65533
FAT_ENTRY_RESERVED == 65534
FAT_ENTRY_EOF == 65535
ATTR_ARCHIVE == 0
ATTR_DIRECTORY == 1

\* offsets of the fields of dir_entry_t, in cells: filename[NameField],
\* attributes, first_block, size
DIR_ENTRY_SIZE == NameField + 3
DIR_ENTRIES_PER_CLUSTER == DirSlots
CLUSTER_SIZE == DIR_ENTRIES_PER_CLUSTER * DIR_ENTRY_SIZE
CLUSTER_COUNT == DATA_CLUSTER_START + NumDataClusters

\* the byte fs_format fills the boot block with (0xBB)
BootFill == 187
\* the '/' of strtok(path_copy, "/") and strrchr(path_copy, '/')
Slash == 47

Clusters == 0 .. (CLUSTER_COUNT - 1)
Slots == 0 .. (DIR_ENTRIES_PER_CLUSTER - 1)

Min(a, b) == IF a < b THEN a ELSE b

ZeroCluster == [k \in 1 .. CLUSTER_SIZE |-> 0]
BootCluster == [k \in 1 .. CLUSTER_SIZE |-> BootFill]

(***************************************************************************)
(* dir_entry_t inside union data_cluster: slot i of cluster buffer cl.     *)
(***************************************************************************)
SlotBase(i) == i * DIR_ENTRY_SIZE
EntryName0(cl, i) == cl[SlotBase(i) + 1]
EntryAttr(cl, i) == cl[SlotBase(i) + NameField + 1]
EntryFirst(cl, i) == cl[SlotBase(i) + NameField + 2]
EntrySize(cl, i) == cl[SlotBase(i) + NameField + 3]

\* strcmp((char*)entry->filename, token) == 0: the cells from the start of
\* the name equal the token's bytes and are followed by a NUL, wherever
\* that falls (strcmp does not stop at the end of the name field).
StrcmpEq(cl, i, token) ==
    /\ SlotBase(i) + Len(token) + 1 <= CLUSTER_SIZE
    /\ \A k \in 1 .. Len(token) : cl[SlotBase(i) + k] = token[k]
    /\ cl[SlotBase(i) + Len(token) + 1] = 0

\* strncpy(filename, name, 17); filename[17] = '\0'; attributes; first_block;
\* size: the slot's cells after mkdir/create filled them
FilledSlot(cl, i, name, attr, first) ==
    [k \in 1 .. CLUSTER_SIZE |->
        IF k <= SlotBase(i) \/ k > SlotBase(i) + DIR_ENTRY_SIZE THEN cl[k]
        ELSE LET o == k - SlotBase(i) IN
             IF o < NameField THEN (IF o <= Len(name) THEN name[o] ELSE 0)
             ELSE IF o = NameField THEN 0
             ELSE IF o = NameField + 1 THEN attr
             ELSE IF o = NameField + 2 THEN first
             ELSE 0]

\* memset(&dir[i], 0, sizeof(dir_entry_t))
ClearedSlot(cl, i) ==
    [k \in 1 .. CLUSTER_SIZE |->
        IF k > SlotBase(i) /\ k <= SlotBase(i) + DIR_ENTRY_SIZE THEN 0 ELSE cl[k]]

\* dir[i].first_block = first; dir[i].size = size
PatchedSlot(cl, i, first, size) ==
    [cl EXCEPT ![SlotBase(i) + NameField + 2] = first,
               ![SlotBase(i) + NameField + 3] = size]

\* dir[i].size = size
ResizedSlot(cl, i, size) == [cl EXCEPT ![SlotBase(i) + NameField + 3] = size]

(***************************************************************************)
(* The FAT region: clusters 1..8 hold g_fat_table, CLUSTER_SIZE entries    *)
(* per cluster (one entry per cell).                                       *)
(***************************************************************************)
FatSlice(fat, i) ==
    [k \in 1 .. CLUSTER_SIZE |->
        LET e == i * CLUSTER_SIZE + (k - 1) IN
        IF e < CLUSTER_COUNT THEN fat[e] ELSE 0]

\* for (i = 0; i < FAT_CLUSTER_COUNT; ++i) write_cluster(FAT_CLUSTER_START + i, ...)
PersistFat(disk, fat) ==
    [c \in Clusters |->
        IF c >= FAT_CLUSTER_START /\ c < FAT_CLUSTER_START + FAT_CLUSTER_COUNT
        THEN FatSlice(fat, c - FAT_CLUSTER_START)
        ELSE disk[c]]

\* fs_load_fat: g_fat_table read back from clusters 1..8
LoadedFat(disk) ==
    [e \in Clusters |->
        disk[FAT_CLUSTER_START + (e \div CLUSTER_SIZE)][(e % CLUSTER_SIZE) + 1]]

\* fs_format's g_fat_table
FormatFat ==
    [e \in Clusters |->
        IF e = BOOT_BLOCK_CLUSTER THEN FAT_ENTRY_BOOT
        ELSE IF e >= FAT_CLUSTER_START /\ e < FAT_CLUSTER_START + FAT_CLUSTER_COUNT
             THEN FAT_ENTRY_RESERVED
        ELSE IF e = ROOT_DIR_CLUSTER THEN FAT_ENTRY_EOF
        ELSE FAT_ENTRY_FREE]

\* the partition after fs_format: "w+b" truncates the file, clusters 0..9 are
\* written and the rest of the 4MB reads as zero
FormatDisk ==
    PersistFat([c \in Clusters |->
                   IF c = BOOT_BLOCK_CLUSTER THEN BootCluster ELSE ZeroCluster],
               FormatFat)

\* write_cluster(c, buf) on an open partition, c < CLUSTER_COUNT
WriteCluster(disk, c, buf) == [disk EXCEPT ![c] = buf]

(***************************************************************************)
(* Strings are sequences of non-zero bytes.                                *)
(***************************************************************************)
\* strtok(path_copy, "/") ... strtok(NULL, "/"): the non-empty components
RECURSIVE StrtokFrom(_, _, _, _)
StrtokFrom(s, k, cur, acc) ==
    IF k > Len(s) THEN (IF cur = <<>> THEN acc ELSE Append(acc, cur))
    ELSE IF s[k] = Slash
         THEN StrtokFrom(s, k + 1, <<>>, IF cur = <<>> THEN acc ELSE Append(acc, cur))
         ELSE StrtokFrom(s, k + 1, Append(cur, s[k]), acc)

Strtok(s) == StrtokFrom(s, 1, <<>>, <<>>)

\* strrchr(path_copy, '/'): index of the last '/', 0 when there is none
Strrchr(s) ==
    LET hits == {k \in 1 .. Len(s) : s[k] = Slash} IN
    IF hits = {} THEN 0 ELSE CHOOSE k \in hits : \A j \in hits : j <= k

\* the parent_path and the new name fs_mkdir and fs_create split a path into
ParentPath(s) == IF Strrchr(s) = 1 THEN <<Slash>> ELSE SubSeq(s, 1, Strrchr(s) - 1)
NewName(s) == SubSeq(s, Strrchr(s) + 1, Len(s))

(***************************************************************************)
(* find_entry_by_path                                                      *)
(***************************************************************************)
\* memset(result, 0, ...); result->parent_cluster = ROOT_DIR_CLUSTER
EmptyResult ==
    [rc |-> 0, found |-> FALSE, parent_cluster |-> ROOT_DIR_CLUSTER,
     entry_cluster |-> 0, entry_index |-> 0,
     attributes |-> 0, first_block |-> 0, size |-> 0]

\* the synthesized result for "/"
RootResult ==
    [EmptyResult EXCEPT !.found = TRUE, !.entry_cluster = ROOT_DIR_CLUSTER,
                        !.attributes = ATTR_DIRECTORY]

\* the lowest slot of cl whose name is non-empty and equals the token
MatchingSlots(cl, token) ==
    {i \in Slots : EntryName0(cl, i) # 0 /\ StrcmpEq(cl, i, token)}

LowestSlot(S) == CHOOSE i \in S : \A j \in S : i <= j

\* the loop with a miss setting parent_cluster to the directory it searched
RECURSIVE ResolveFromSearched(_, _, _, _, _)
ResolveFromSearched(disk, toks, k, current_cluster, result) ==
    IF k > Len(toks) THEN [result EXCEPT !.found = TRUE]
    ELSE IF current_cluster >= CLUSTER_COUNT THEN [result EXCEPT !.rc = -1]
    ELSE LET cl == disk[current_cluster]
             hit == MatchingSlots(cl, toks[k])
         IN  IF hit = {}
             THEN [result EXCEPT !.found = FALSE, !.parent_cluster = current_cluster]
             ELSE LET i == LowestSlot(hit) IN
                  ResolveFromSearched(disk, toks, k + 1, EntryFirst(cl, i),
                      [result EXCEPT !.parent_cluster = current_cluster,
                                     !.entry_cluster = EntryFirst(cl, i),
                                     !.entry_index = i,
                                     !.attributes = EntryAttr(cl, i),
                                     !.first_block = EntryFirst(cl, i),
                                     !.size = EntrySize(cl, i)])

\* the while (token != NULL) loop
RECURSIVE ResolveFrom(_, _, _, _, _)
ResolveFrom(disk, toks, k, current_cluster, result) ==
    IF k > Len(toks) THEN [result EXCEPT !.found = TRUE]
    ELSE IF current_cluster >= CLUSTER_COUNT THEN [result EXCEPT !.rc = -1]
    ELSE LET cl == disk[current_cluster]
             hit == MatchingSlots(cl, toks[k])
         IN  IF hit = {} THEN [result EXCEPT !.found = FALSE]
             ELSE LET i == LowestSlot(hit) IN
                  ResolveFrom(disk, toks, k + 1, EntryFirst(cl, i),
                      [result EXCEPT !.parent_cluster = current_cluster,
                                     !.entry_cluster = EntryFirst(cl, i),
                                     !.entry_index = i,
                                     !.attributes = EntryAttr(cl, i),
                                     !.first_block = EntryFirst(cl, i),
                                     !.size = EntrySize(cl, i)])

find_entry_by_path(disk, path) ==
    IF path = <<Slash>> THEN RootResult
    ELSE IF Strtok(path) = <<>> THEN EmptyResult
    ELSE ResolveFrom(disk, Strtok(path), 1, ROOT_DIR_CLUSTER, EmptyResult)

(***************************************************************************)
(* Allocator                                                               *)
(***************************************************************************)
find_free_cluster(fat) ==
    LET free == {i \in DATA_CLUSTER_START .. (CLUSTER_COUNT - 1) : fat[i] = FAT_ENTRY_FREE}
    IN  IF free = {} THEN 0 ELSE CHOOSE i \in free : \A j \in free : i <= j

\* find_free_dir_entry returning the last slot of a full directory
find_free_dir_entry_last(disk, dir_cluster_index) ==
    IF dir_cluster_index >= CLUSTER_COUNT THEN -1
    ELSE LET free == {i \in Slots : EntryName0(disk[dir_cluster_index], i) = 0}
         IN  IF free = {} THEN DIR_ENTRIES_PER_CLUSTER - 1 ELSE LowestSlot(free)

\* find_free_dir_entry: -1 when the cluster cannot be read, -2 when full
find_free_dir_entry(disk, dir_cluster_index) ==
    IF dir_cluster_index >= CLUSTER_COUNT THEN -1
    ELSE LET free == {i \in Slots : EntryName0(disk[dir_cluster_index], i) = 0}
         IN  IF free = {} THEN -2 ELSE LowestSlot(free)

(***************************************************************************)
(* An index at or beyond CLUSTER_COUNT used on g_fat_table is an access    *)
(* outside the array.  What it does is not defined by the program: the     *)
(* process may die (u < 0), or the read may yield some 16-bit value u and  *)
(* the write land outside the table.  u is chosen by the caller's step.    *)
(***************************************************************************)
UbOutcomes == {-1, FAT_ENTRY_FREE, FAT_ENTRY_EOF}

\* free_cluster_chain(starting_cluster)
RECURSIVE FreeWalk(_, _, _, _)
FreeWalk(fat, current, u, oob) ==
    IF current = 0 \/ current >= FAT_ENTRY_EOF
    THEN [fat |-> fat, oob |-> oob, fate |-> "returned"]
    ELSE IF current >= CLUSTER_COUNT
         THEN IF u < 0 THEN [fat |-> fat, oob |-> TRUE, fate |-> "crashed"]
              ELSE FreeWalk(fat, u, u, TRUE)
         ELSE FreeWalk([fat EXCEPT ![current] = FAT_ENTRY_FREE], fat[current], u, oob)

free_cluster_chain(fat, starting_cluster, u) == FreeWalk(fat, starting_cluster, u, FALSE)

(***************************************************************************)
(* What one call of an operation leaves behind: its return value, the      *)
(* diagnostic it printed, g_fat_table, the partition, the bytes it emitted *)
(* on stdout, whether it indexed g_fat_table outside the array, and        *)
(* whether it returned at all.                                             *)
(***************************************************************************)
Done(rc, err, fat, disk, out, oob, fate) ==
    [rc |-> rc, err |-> err, fat |-> fat, disk |-> disk, out |-> out,
     oob |-> oob, fate |-> fate]

Fail(err, fat, disk) == Done(-1, err, fat, disk, <<>>, FALSE, "returned")
Success(fat, disk) == Done(0, "ok", fat, disk, <<>>, FALSE, "returned")

(***************************************************************************)
(* fs_mkdir                                                                *)
(***************************************************************************)
fs_mkdir(fat, disk, path) ==
    IF Strrchr(path) = 0 THEN Fail("invalid", fat, disk)
    ELSE LET parent_info == find_entry_by_path(disk, ParentPath(path)) IN
    IF parent_info.rc # 0 \/ ~parent_info.found THEN Fail("noent", fat, disk)
    ELSE IF parent_info.attributes # ATTR_DIRECTORY THEN Fail("notdir", fat, disk)
    ELSE LET free_entry_index == find_free_dir_entry(disk, parent_info.entry_cluster) IN
    IF free_entry_index < 0 THEN Fail("dirfull", fat, disk)
    ELSE LET new_cluster_idx == find_free_cluster(fat) IN
    IF new_cluster_idx = 0 THEN Fail("nospace", fat, disk)
    ELSE LET parent_cluster_data ==
                 FilledSlot(disk[parent_info.entry_cluster], free_entry_index,
                            NewName(path), ATTR_DIRECTORY, new_cluster_idx)
             fat2 == [fat EXCEPT ![new_cluster_idx] = FAT_ENTRY_EOF]
             d1 == WriteCluster(disk, parent_info.entry_cluster, parent_cluster_data)
             d2 == WriteCluster(d1, new_cluster_idx, ZeroCluster)
         IN  Success(fat2, PersistFat(d2, fat2))

(***************************************************************************)
(* fs_create                                                               *)
(***************************************************************************)
fs_create(fat, disk, path) ==
    IF Strrchr(path) = 0 THEN Fail("invalid", fat, disk)
    ELSE LET parent_info == find_entry_by_path(disk, ParentPath(path)) IN
    IF parent_info.rc # 0 \/ ~parent_info.found
       \/ parent_info.attributes # ATTR_DIRECTORY THEN Fail("noent", fat, disk)
    ELSE LET free_entry_index == find_free_dir_entry(disk, parent_info.entry_cluster) IN
    IF free_entry_index < 0 THEN Fail("dirfull", fat, disk)
    ELSE LET new_cluster_idx == find_free_cluster(fat) IN
    IF new_cluster_idx = 0 THEN Fail("nospace", fat, disk)
    ELSE LET parent_cluster_data ==
                 FilledSlot(disk[parent_info.entry_cluster], free_entry_index,
                            NewName(path), ATTR_ARCHIVE, new_cluster_idx)
             fat2 == [fat EXCEPT ![new_cluster_idx] = FAT_ENTRY_EOF]
             d1 == WriteCluster(disk, parent_info.entry_cluster, parent_cluster_data)
         IN  Success(fat2, PersistFat(d1, fat2))

\* fs_unlink without the scan of a directory's slots
fs_unlink_unchecked(fat, disk, path, u) ==
    LET result == find_entry_by_path(disk, path) IN
    IF result.rc # 0 \/ ~result.found THEN Fail("noent", fat, disk)
    ELSE LET fr == free_cluster_chain(fat, result.first_block, u) IN
    IF fr.fate # "returned" THEN Done(-1, "ub", fr.fat, disk, <<>>, fr.oob, fr.fate)
    ELSE LET parent_dir_content == ClearedSlot(disk[result.parent_cluster], result.entry_index)
             d1 == WriteCluster(disk, result.parent_cluster, parent_dir_content)
         IN  Done(0, "ok", fr.fat, PersistFat(d1, fr.fat), <<>>, fr.oob, "returned")

(***************************************************************************)
(* fs_unlink                                                               *)
(***************************************************************************)
fs_unlink(fat, disk, path, u) ==
    LET result == find_entry_by_path(disk, path) IN
    IF result.rc # 0 \/ ~result.found THEN Fail("noent", fat, disk)
    ELSE IF result.attributes = ATTR_DIRECTORY /\ result.entry_cluster >= CLUSTER_COUNT
         THEN Fail("io", fat, disk)
    ELSE IF result.attributes = ATTR_DIRECTORY
            /\ \E i \in Slots : EntryName0(disk[result.entry_cluster], i) # 0
         THEN Fail("notempty", fat, disk)
    ELSE LET fr == free_cluster_chain(fat, result.first_block, u) IN
    IF fr.fate # "returned" THEN Done(-1, "ub", fr.fat, disk, <<>>, fr.oob, fr.fate)
    ELSE LET parent_dir_content == ClearedSlot(disk[result.parent_cluster], result.entry_index)
             d1 == WriteCluster(disk, result.parent_cluster, parent_dir_content)
         IN  Done(0, "ok", fr.fat, PersistFat(d1, fr.fat), <<>>, fr.oob, "returned")

(***************************************************************************)
(* fs_read                                                                 *)
(***************************************************************************)
\* while (bytes_to_read > 0 && current_cluster < FAT_ENTRY_EOF)
RECURSIVE ReadLoop(_, _, _, _, _)
ReadLoop(fat, disk, current_cluster, bytes_to_read, out) ==
    IF bytes_to_read = 0 \/ current_cluster >= FAT_ENTRY_EOF
    THEN Done(0, "ok", fat, disk, out, FALSE, "returned")
    ELSE IF current_cluster >= CLUSTER_COUNT
         THEN Done(-1, "io", fat, disk, out, FALSE, "returned")
         ELSE LET len == Min(bytes_to_read, CLUSTER_SIZE) IN
              ReadLoop(fat, disk, fat[current_cluster], bytes_to_read - len,
                       out \o SubSeq(disk[current_cluster], 1, len))

fs_read(fat, disk, path) ==
    LET result == find_entry_by_path(disk, path) IN
    IF result.rc # 0 \/ ~result.found THEN Fail("noent", fat, disk)
    ELSE IF result.attributes # ATTR_ARCHIVE THEN Fail("notfile", fat, disk)
    ELSE ReadLoop(fat, disk, result.first_block, result.size, <<>>)

(***************************************************************************)
(* fs_write                                                                *)
(***************************************************************************)
\* the i-th cluster-sized piece of content starting at offset p, in a
\* zeroed buffer: uint8_t buffer[CLUSTER_SIZE] = {0}; memcpy(buffer, p, len)
Slice(content, p) ==
    [k \in 1 .. CLUSTER_SIZE |-> IF p + k <= Len(content) THEN content[p + k] ELSE 0]

\* while (p < content + content_len): nospace tells that find_free_cluster
\* returned 0 and the chain built so far was handed to free_cluster_chain
RECURSIVE WriteLoop(_, _, _, _, _, _, _)
WriteLoop(fat, disk, content, p, first_cluster, current_cluster, u) ==
    IF p >= Len(content)
    THEN [fat |-> fat, disk |-> disk, first_cluster |-> first_cluster,
          nospace |-> FALSE, oob |-> FALSE, fate |-> "returned"]
    ELSE LET next_cluster == find_free_cluster(fat) IN
         IF next_cluster = 0
         THEN LET fr == free_cluster_chain(fat, first_cluster, u) IN
              [fat |-> fr.fat, disk |-> disk, first_cluster |-> first_cluster,
               nospace |-> TRUE, oob |-> fr.oob, fate |-> fr.fate]
         ELSE LET f1 == IF first_cluster = 0 THEN fat
                        ELSE [fat EXCEPT ![current_cluster] = next_cluster]
                  f2 == [f1 EXCEPT ![next_cluster] = FAT_ENTRY_EOF]
              IN  WriteLoop(f2, WriteCluster(disk, next_cluster, Slice(content, p)),
                            content, p + Min(CLUSTER_SIZE, Len(content) - p),
                            IF first_cluster = 0 THEN next_cluster ELSE first_cluster,
                            next_cluster, u)

\* the else branch: first_cluster = find_free_cluster(); g_fat_table[first_cluster] = EOF
EmptyWrite(fat, disk) ==
    [fat |-> [fat EXCEPT ![find_free_cluster(fat)] = FAT_ENTRY_EOF], disk |-> disk,
     first_cluster |-> find_free_cluster(fat),
     nospace |-> FALSE, oob |-> FALSE, fate |-> "returned"]

\* fs_write without the test of the entry's attributes
fs_write_any_kind(fat, disk, path, content, u) ==
    LET result == find_entry_by_path(disk, path) IN
    IF result.rc # 0 \/ ~result.found THEN Fail("notfile", fat, disk)
    ELSE LET fr == free_cluster_chain(fat, result.first_block, u) IN
    IF fr.fate # "returned" THEN Done(-1, "ub", fr.fat, disk, <<>>, fr.oob, fr.fate)
    ELSE LET w == IF Len(content) > 0
                  THEN WriteLoop(fr.fat, disk, content, 0, 0, 0, u)
                  ELSE EmptyWrite(fr.fat, disk)
         IN
    IF w.fate # "returned" THEN Done(-1, "ub", w.fat, w.disk, <<>>, TRUE, w.fate)
    ELSE IF w.nospace THEN Done(-1, "nospace", w.fat, w.disk, <<>>, fr.oob \/ w.oob, "returned")
    ELSE LET parent_dir_content ==
                 PatchedSlot(w.disk[result.parent_cluster], result.entry_index,
                             w.first_cluster, Len(content))
             d1 == WriteCluster(w.disk, result.parent_cluster, parent_dir_content)
         IN  Done(0, "ok", w.fat, PersistFat(d1, w.fat), <<>>, fr.oob \/ w.oob, "returned")

fs_write(fat, disk, path, content, u) ==
    LET result == find_entry_by_path(disk, path) IN
    IF result.rc # 0 \/ ~result.found \/ result.attributes # ATTR_ARCHIVE
    THEN Fail("notfile", fat, disk)
    ELSE LET fr == free_cluster_chain(fat, result.first_block, u) IN
    IF fr.fate # "returned" THEN Done(-1, "ub", fr.fat, disk, <<>>, fr.oob, fr.fate)
    ELSE LET w == IF Len(content) > 0
                  THEN WriteLoop(fr.fat, disk, content, 0, 0, 0, u)
                  ELSE EmptyWrite(fr.fat, disk)
         IN
    IF w.fate # "returned" THEN Done(-1, "ub", w.fat, w.disk, <<>>, TRUE, w.fate)
    ELSE IF w.nospace THEN Done(-1, "nospace", w.fat, w.disk, <<>>, fr.oob \/ w.oob, "returned")
    ELSE LET parent_dir_content ==
                 PatchedSlot(w.disk[result.parent_cluster], result.entry_index,
                             w.first_cluster, Len(content))
             d1 == WriteCluster(w.disk, result.parent_cluster, parent_dir_content)
         IN  Done(0, "ok", w.fat, PersistFat(d1, w.fat), <<>>, fr.oob \/ w.oob, "returned")

(***************************************************************************)
(* fs_append                                                               *)
(***************************************************************************)
\* while (g_fat_table[current_cluster] != FAT_ENTRY_EOF)
\*     current_cluster = g_fat_table[current_cluster];
\* the loop has no bound of its own: a walk longer than any chain of the
\* table never ends
RECURSIVE TailWalk(_, _, _, _, _)
TailWalk(fat, current_cluster, u, fuel, oob) ==
    IF current_cluster >= CLUSTER_COUNT /\ u < 0
    THEN [current_cluster |-> current_cluster, oob |-> TRUE, fate |-> "crashed"]
    ELSE LET value == IF current_cluster >= CLUSTER_COUNT THEN u ELSE fat[current_cluster]
             seen == oob \/ current_cluster >= CLUSTER_COUNT
         IN  IF value = FAT_ENTRY_EOF
             THEN [current_cluster |-> current_cluster, oob |-> seen, fate |-> "returned"]
             ELSE IF fuel = 0
                  THEN [current_cluster |-> current_cluster, oob |-> seen, fate |-> "hung"]
                  ELSE TailWalk(fat, value, u, fuel - 1, seen)

\* memcpy(buffer.data + offset_in_cluster, p, bytes_to_copy)
Filled(buffer, offset_in_cluster, content, p) ==
    [k \in 1 .. CLUSTER_SIZE |->
        IF k > offset_in_cluster /\ p + (k - offset_in_cluster) <= Len(content)
        THEN content[p + (k - offset_in_cluster)] ELSE buffer[k]]

\* while (remaining_content > 0)
RECURSIVE AppendLoop(_, _, _, _, _, _, _)
AppendLoop(fat, disk, content, p, current_cluster, offset_in_cluster, buffer) ==
    LET bytes_to_copy == Min(Len(content) - p, CLUSTER_SIZE - offset_in_cluster)
        d1 == WriteCluster(disk, current_cluster,
                           Filled(buffer, offset_in_cluster, content, p))
        new_cluster == find_free_cluster(fat)
    IN  IF p + bytes_to_copy >= Len(content)
        THEN [fat |-> fat, disk |-> d1, nospace |-> FALSE]
        ELSE IF new_cluster = 0
             THEN [fat |-> fat, disk |-> d1, nospace |-> TRUE]
             ELSE AppendLoop([fat EXCEPT ![current_cluster] = new_cluster,
                                         ![new_cluster] = FAT_ENTRY_EOF],
                             d1, content, p + bytes_to_copy, new_cluster, 0, ZeroCluster)

\* steps 2..5 of fs_append, from the tail the walk ended at
AppendAt(fat, disk, result, content, tail, oob) ==
    LET full == (result.size % CLUSTER_SIZE = 0) /\ result.size > 0
        new_cluster == find_free_cluster(fat)
    IN
    IF full /\ new_cluster = 0 THEN Done(-1, "nospace", fat, disk, <<>>, oob, "returned")
    ELSE IF ~full /\ tail >= CLUSTER_COUNT THEN Done(-1, "io", fat, disk, <<>>, oob, "returned")
    ELSE LET f1 == IF ~full THEN fat
                   ELSE IF tail >= CLUSTER_COUNT
                        THEN [fat EXCEPT ![new_cluster] = FAT_ENTRY_EOF]
                        ELSE [fat EXCEPT ![tail] = new_cluster,
                                         ![new_cluster] = FAT_ENTRY_EOF]
             a == AppendLoop(f1, disk, content, 0,
                             IF full THEN new_cluster ELSE tail,
                             IF full THEN 0 ELSE result.size % CLUSTER_SIZE,
                             IF full THEN ZeroCluster ELSE disk[tail])
             seen == oob \/ (full /\ tail >= CLUSTER_COUNT)
         IN
    IF a.nospace THEN Done(-1, "nospace", a.fat, a.disk, <<>>, seen, "returned")
    ELSE LET parent_dir_content ==
                 ResizedSlot(a.disk[result.parent_cluster], result.entry_index,
                             result.size + Len(content))
             d1 == WriteCluster(a.disk, result.parent_cluster, parent_dir_content)
         IN  Done(0, "ok", a.fat, PersistFat(d1, a.fat), <<>>, seen, "returned")

fs_append(fat, disk, path, content, u) ==
    LET result == find_entry_by_path(disk, path) IN
    IF result.rc # 0 \/ ~result.found \/ result.attributes # ATTR_ARCHIVE
    THEN Fail("notfile", fat, disk)
    ELSE IF Len(content) = 0 THEN Success(fat, disk)
    ELSE LET walk == IF result.size > 0
                     THEN TailWalk(fat, result.first_block, u, CLUSTER_COUNT + 1, FALSE)
                     ELSE [current_cluster |-> result.first_block, oob |-> FALSE,
                           fate |-> "returned"]
         IN
    IF walk.fate # "returned" THEN Done(-1, "ub", fat, disk, <<>>, walk.oob, walk.fate)
    ELSE AppendAt(fat, disk, result, content, walk.current_cluster, walk.oob)

(***************************************************************************)
(* The calls of write_cluster one call of an operation makes, in order:    *)
(* the sequence of the cluster indices written.                            *)
(***************************************************************************)
\* for (i = 0; i < FAT_CLUSTER_COUNT; ++i) write_cluster(FAT_CLUSTER_START + i, ...)
PersistWrites == [i \in 1 .. FAT_CLUSTER_COUNT |-> FAT_CLUSTER_START + (i - 1)]

mkdir_writes(fat, disk, path) ==
    IF fs_mkdir(fat, disk, path).rc # 0 THEN <<>>
    ELSE <<find_entry_by_path(disk, ParentPath(path)).entry_cluster,
           find_free_cluster(fat)>> \o PersistWrites

create_writes(fat, disk, path) ==
    IF fs_create(fat, disk, path).rc # 0 THEN <<>>
    ELSE <<find_entry_by_path(disk, ParentPath(path)).entry_cluster>> \o PersistWrites

unlink_writes(fat, disk, path, u) ==
    IF fs_unlink(fat, disk, path, u).rc # 0 THEN <<>>
    ELSE <<find_entry_by_path(disk, path).parent_cluster>> \o PersistWrites

\* the write_cluster(current_cluster, buffer) calls of fs_write's loop
RECURSIVE WriteLoopWrites(_, _, _, _, _)
WriteLoopWrites(fat, content, p, first_cluster, current_cluster) ==
    IF p >= Len(content) THEN <<>>
    ELSE LET next_cluster == find_free_cluster(fat) IN
         IF next_cluster = 0 THEN <<>>
         ELSE LET f1 == IF first_cluster = 0 THEN fat
                        ELSE [fat EXCEPT ![current_cluster] = next_cluster]
                  f2 == [f1 EXCEPT ![next_cluster] = FAT_ENTRY_EOF]
              IN  <<next_cluster>> \o
                  WriteLoopWrites(f2, content, p + Min(CLUSTER_SIZE, Len(content) - p),
                                  IF first_cluster = 0 THEN next_cluster ELSE first_cluster,
                                  next_cluster)

write_writes(fat, disk, path, content, u) ==
    LET result == find_entry_by_path(disk, path)
        fr == free_cluster_chain(fat, result.first_block, u)
    IN  IF result.rc # 0 \/ ~result.found \/ result.attributes # ATTR_ARCHIVE THEN <<>>
        ELSE IF fr.fate # "returned" THEN <<>>
        ELSE WriteLoopWrites(fr.fat, content, 0, 0, 0) \o
             (IF fs_write(fat, disk, path, content, u).rc # 0 THEN <<>>
              ELSE <<result.parent_cluster>> \o PersistWrites)

\* the write_cluster(current_cluster, &buffer) calls of fs_append's loop
RECURSIVE AppendLoopWrites(_, _, _, _, _)
AppendLoopWrites(fat, content, p, current_cluster, offset_in_cluster) ==
    LET bytes_to_copy == Min(Len(content) - p, CLUSTER_SIZE - offset_in_cluster)
        new_cluster == find_free_cluster(fat)
    IN  <<current_cluster>> \o
        (IF p + bytes_to_copy >= Len(content) \/ new_cluster = 0 THEN <<>>
         ELSE AppendLoopWrites([fat EXCEPT ![current_cluster] = new_cluster,
                                           ![new_cluster] = FAT_ENTRY_EOF],
                               content, p + bytes_to_copy, new_cluster, 0))

\* fs_append persisting the FAT before it writes the parent directory cluster
append_writes_fat_first(fat, disk, path, content, u) ==
    LET result == find_entry_by_path(disk, path) IN
    IF fs_append(fat, disk, path, content, u).rc # 0 \/ Len(content) = 0 THEN <<>>
    ELSE PersistWrites \o <<result.parent_cluster>>

append_writes(fat, disk, path, content, u) ==
    LET result == find_entry_by_path(disk, path)
        walk == IF result.size > 0
                THEN TailWalk(fat, result.first_block, u, CLUSTER_COUNT + 1, FALSE)
                ELSE [current_cluster |-> result.first_block, oob |-> FALSE,
                      fate |-> "returned"]
        tail == walk.current_cluster
        full == (result.size % CLUSTER_SIZE = 0) /\ result.size > 0
        new_cluster == find_free_cluster(fat)
        f1 == IF ~full THEN fat
              ELSE IF tail >= CLUSTER_COUNT
                   THEN [fat EXCEPT ![new_cluster] = FAT_ENTRY_EOF]
                   ELSE [fat EXCEPT ![tail] = new_cluster, ![new_cluster] = FAT_ENTRY_EOF]
    IN  IF result.rc # 0 \/ ~result.found \/ result.attributes # ATTR_ARCHIVE THEN <<>>
        ELSE IF Len(content) = 0 THEN <<>>
        ELSE IF walk.fate # "returned" THEN <<>>
        ELSE IF full /\ new_cluster = 0 THEN <<>>
        ELSE IF ~full /\ tail >= CLUSTER_COUNT THEN <<>>
        ELSE AppendLoopWrites(f1, content, 0, IF full THEN new_cluster ELSE tail,
                              IF full THEN 0 ELSE result.size % CLUSTER_SIZE) \o
             (IF fs_append(fat, disk, path, content, u).rc # 0 THEN <<>>
              ELSE <<result.parent_cluster>> \o PersistWrites)

(***************************************************************************)
(* The shell: main's command loop over the file system.                    *)
(***************************************************************************)
VARIABLES
    g_fat_table,        \* uint16_t g_fat_table[CLUSTER_COUNT]
    partition,          \* the clusters of fat.part
    g_partition_file,   \* TRUE when the FILE* is not NULL
    fs_loaded,          \* main's bool fs_loaded
    proc,               \* "running", or how the process ended: "crashed", "hung"
    ret,                \* the last command: its name, arguments and outcome
    failed,             \* TRUE once a command since the last format returned an error
    steps               \* the number of commands read so far

vars == <<g_fat_table, partition, g_partition_file, fs_loaded, proc, ret, failed, steps>>

\* the names and paths the shell is given
NameA == <<97>>
NameB == <<98>>
\* a name of NameField bytes, one more than the NameField - 1 that are stored
LongName == [k \in 1 .. NameField |-> 97]

Root == <<Slash>>
Under(dir, name) == IF dir = Root THEN Root \o name ELSE dir \o Root \o name

PathA == Under(Root, NameA)
PathB == Under(Root, NameB)
PathAA == Under(PathA, NameA)
PathBA == Under(PathB, NameA)
PathASlash == PathA \o Root
PathLong == Under(Root, LongName)

\* the contents the shell is given: n bytes, 'b' and 'a' in turn
Pattern(n) == [k \in 1 .. n |-> IF k % 2 = 1 THEN 98 ELSE 97]
\* more bytes than the data area holds
TooBig == Pattern(NumDataClusters * CLUSTER_SIZE + 1)

Outcome(op, path, content, r) ==
    [op |-> op, path |-> path, content |-> content, rc |-> r.rc, err |-> r.err,
     out |-> r.out, oob |-> r.oob]

Init ==
    /\ g_fat_table = [e \in Clusters |-> 0]
    /\ partition = [c \in Clusters |-> ZeroCluster]
    /\ g_partition_file = FALSE
    /\ fs_loaded = FALSE
    /\ proc = "running"
    /\ ret = [op |-> "start", path |-> <<>>, content |-> <<>>, rc |-> 0, err |-> "ok",
              out |-> <<>>, oob |-> FALSE]
    /\ failed = FALSE
    /\ steps = 0

\* a core operation called by main: its effects on the table and the partition
Call(op, path, content, r) ==
    /\ g_fat_table' = r.fat
    /\ partition' = r.disk
    /\ proc' = IF r.fate = "returned" THEN "running" ELSE r.fate
    /\ ret' = Outcome(op, path, content, r)
    /\ failed' = (failed \/ r.rc # 0 \/ r.fate # "returned")
    /\ UNCHANGED <<g_partition_file, fs_loaded>>

\* main's last else: "File system not loaded. Please run 'init' and 'load'."
NotLoaded(op, path, content) ==
    /\ ret' = Outcome(op, path, content, Fail("notloaded", g_fat_table, partition))
    /\ failed' = TRUE
    /\ UNCHANGED <<g_fat_table, partition, g_partition_file, fs_loaded, proc>>

\* main reads one more command; max bounds the length of the session
Command(max) ==
    /\ proc = "running"
    /\ steps < max
    /\ steps' = steps + 1

\* the outcomes to consider for a call: one when it stays inside g_fat_table
UbChoices(r) == IF r.oob THEN UbOutcomes ELSE {-1}

\* "init" without main's "fs_loaded = false" after fs_format
FormatKeepsLoaded(max) ==
    /\ Command(max)
    /\ g_fat_table' = FormatFat
    /\ partition' = FormatDisk
    /\ g_partition_file' = TRUE
    /\ ret' = Outcome("format", <<>>, <<>>, Success(FormatFat, FormatDisk))
    /\ failed' = FALSE
    /\ UNCHANGED <<proc, fs_loaded>>

\* "init" with fs_format opening the partition file without truncating it:
\* the clusters it does not write keep what they held
FormatInPlace(max) ==
    /\ Command(max)
    /\ g_fat_table' = FormatFat
    /\ partition' = PersistFat([c \in Clusters |->
                                   IF c = BOOT_BLOCK_CLUSTER THEN BootCluster
                                   ELSE IF c = ROOT_DIR_CLUSTER THEN ZeroCluster
                                   ELSE partition[c]],
                               FormatFat)
    /\ g_partition_file' = TRUE
    /\ fs_loaded' = FALSE
    /\ ret' = Outcome("format", <<>>, <<>>, Success(FormatFat, FormatDisk))
    /\ failed' = FALSE
    /\ UNCHANGED proc

\* "init": fs_format, then fs_loaded = false
Format(max) ==
    /\ Command(max)
    /\ g_fat_table' = FormatFat
    /\ partition' = FormatDisk
    /\ g_partition_file' = TRUE
    /\ fs_loaded' = FALSE
    /\ ret' = Outcome("format", <<>>, <<>>, Success(FormatFat, FormatDisk))
    /\ failed' = FALSE
    /\ UNCHANGED proc

\* "load": fs_load_fat, then fs_loaded = true; read_cluster fails without a file
Load(max) ==
    /\ Command(max)
    /\ IF g_partition_file
       THEN /\ g_fat_table' = LoadedFat(partition)
            /\ fs_loaded' = TRUE
            /\ ret' = Outcome("load", <<>>, <<>>, Success(LoadedFat(partition), partition))
            /\ UNCHANGED failed
       ELSE /\ ret' = Outcome("load", <<>>, <<>>, Fail("io", g_fat_table, partition))
            /\ failed' = TRUE
            /\ UNCHANGED <<g_fat_table, fs_loaded>>
    /\ UNCHANGED <<partition, g_partition_file, proc>>

Mkdir(max, P) ==
    /\ Command(max)
    /\ \E path \in P :
          IF fs_loaded THEN Call("mkdir", path, <<>>, fs_mkdir(g_fat_table, partition, path))
          ELSE NotLoaded("mkdir", path, <<>>)

Create(max, P) ==
    /\ Command(max)
    /\ \E path \in P :
          IF fs_loaded THEN Call("create", path, <<>>, fs_create(g_fat_table, partition, path))
          ELSE NotLoaded("create", path, <<>>)

Unlink(max, P) ==
    /\ Command(max)
    /\ \E path \in P :
          IF fs_loaded
          THEN \E u \in UbChoices(fs_unlink(g_fat_table, partition, path, -1)) :
                  Call("unlink", path, <<>>, fs_unlink(g_fat_table, partition, path, u))
          ELSE NotLoaded("unlink", path, <<>>)

Read(max, P) ==
    /\ Command(max)
    /\ \E path \in P :
          IF fs_loaded THEN Call("read", path, <<>>, fs_read(g_fat_table, partition, path))
          ELSE NotLoaded("read", path, <<>>)

Write(max, P, C) ==
    /\ Command(max)
    /\ \E path \in P, content \in C :
          IF fs_loaded
          THEN \E u \in UbChoices(fs_write(g_fat_table, partition, path, content, -1)) :
                  Call("write", path, content,
                       fs_write(g_fat_table, partition, path, content, u))
          ELSE NotLoaded("write", path, content)

AppendTo(max, P, C) ==
    /\ Command(max)
    /\ \E path \in P, content \in C :
          IF fs_loaded
          THEN \E u \in UbChoices(fs_append(g_fat_table, partition, path, content, -1)) :
                  Call("append", path, content,
                       fs_append(g_fat_table, partition, path, content, u))
          ELSE NotLoaded("append", path, content)

(***************************************************************************)
(* Sessions of at most MaxOps commands over a handful of paths and         *)
(* contents.                                                               *)
(***************************************************************************)
MaxOps == 6

Paths == {Root, PathA, PathB, PathAA, PathASlash, PathLong}
Contents == {<<>>, NameA, Pattern(CLUSTER_SIZE), Pattern(CLUSTER_SIZE + 1), TooBig}

Next ==
    \/ Format(MaxOps)
    \/ Load(MaxOps)
    \/ Mkdir(MaxOps, Paths)
    \/ Create(MaxOps, Paths)
    \/ Unlink(MaxOps, Paths)
    \/ Read(MaxOps, Paths)
    \/ Write(MaxOps, Paths, Contents)
    \/ AppendTo(MaxOps, Paths, Contents)

Spec == Init /\ [][Next]_vars

(***************************************************************************)
(* Deeper sessions over fewer paths and contents: a file, a directory and  *)
(* a file in the directory.                                                *)
(***************************************************************************)
MaxOpsDeep == 8

DeepPaths == {PathA, PathB, PathBA}
DeepContents == {NameB, TooBig}

NextDeep ==
    \/ Format(MaxOpsDeep)
    \/ Load(MaxOpsDeep)
    \/ Mkdir(MaxOpsDeep, DeepPaths)
    \/ Create(MaxOpsDeep, DeepPaths)
    \/ Unlink(MaxOpsDeep, DeepPaths)
    \/ Read(MaxOpsDeep, DeepPaths)
    \/ Write(MaxOpsDeep, DeepPaths, DeepContents)
    \/ AppendTo(MaxOpsDeep, DeepPaths, DeepContents)

SpecDeep == Init /\ [][NextDeep]_vars

(***************************************************************************)
(* Sessions over a file whose data reads as a directory entry.  PunToken   *)
(* is a content whose cells fill the name, the attribute and the           *)
(* first_block of slot 0 of the file's cluster, first_block being a        *)
(* cluster of the FAT region; FatToken is the name that cluster shows when *)
(* it is read as a directory: the cells of its first non-Free entry (the   *)
(* bytes FF FF of an end-of-chain entry) up to the next Free entry.        *)
(***************************************************************************)
MaxOpsPun == 5

PunToken == [k \in 1 .. (NameField + 2) |->
                IF k = NameField + 2 THEN FAT_CLUSTER_START + 1 ELSE 97]
FatToken == <<FAT_ENTRY_EOF>>
PathPunFile == Under(PathA, PunToken)
PathPun == Under(PathPunFile, FatToken)

PunPaths == {PathA, PathPunFile, PathPun}
PunContents == {PunToken}

NextPun ==
    \/ Format(MaxOpsPun)
    \/ Load(MaxOpsPun)
    \/ Mkdir(MaxOpsPun, PunPaths)
    \/ Create(MaxOpsPun, PunPaths)
    \/ Unlink(MaxOpsPun, PunPaths)
    \/ Read(MaxOpsPun, PunPaths)
    \/ Write(MaxOpsPun, PunPaths, PunContents)
    \/ AppendTo(MaxOpsPun, PunPaths, PunContents)

SpecPun == Init /\ [][NextPun]_vars

(***************************************************************************)
(* The directory tree and the chains, as the properties speak of them.     *)
(***************************************************************************)
DataClusters == DATA_CLUSTER_START .. (CLUSTER_COUNT - 1)

\* the directory clusters: the root and the clusters of directory entries
RECURSIVE DirClosure(_, _)
DirClosure(disk, S) ==
    LET T == S \cup {EntryFirst(disk[x[1]], x[2]) :
                        x \in {y \in S \X Slots :
                                  /\ EntryName0(disk[y[1]], y[2]) # 0
                                  /\ EntryAttr(disk[y[1]], y[2]) = ATTR_DIRECTORY
                                  /\ EntryFirst(disk[y[1]], y[2]) \in Clusters}}
    IN  IF T = S THEN S ELSE DirClosure(disk, T)

\* the occupied directory entries, each a <<directory cluster, slot>>
Occupied(disk) ==
    {x \in DirClosure(disk, {ROOT_DIR_CLUSTER}) \X Slots : EntryName0(disk[x[1]], x[2]) # 0}

FirstOf(disk, x) == EntryFirst(disk[x[1]], x[2])

\* the data clusters met walking the table from c, at most n of them
RECURSIVE Chain(_, _, _)
Chain(fat, c, n) ==
    IF n = 0 \/ c \notin DataClusters THEN <<>>
    ELSE <<c>> \o Chain(fat, fat[c], n - 1)

ChainSet(fat, c) == {Chain(fat, c, NumDataClusters + 1)[k] :
                        k \in 1 .. Len(Chain(fat, c, NumDataClusters + 1))}

\* the walk from c stays in the data area, meets no Free entry and ends at
\* end-of-chain within n steps
RECURSIVE ChainEnds(_, _, _)
ChainEnds(fat, c, n) ==
    /\ n > 0
    /\ c \in DataClusters
    /\ fat[c] # FAT_ENTRY_FREE
    /\ (fat[c] = FAT_ENTRY_EOF \/ ChainEnds(fat, fat[c], n - 1))

RECURSIVE SumOver(_, _, _)
SumOver(fat, disk, S) ==
    IF S = {} THEN 0
    ELSE LET x == CHOOSE y \in S : TRUE IN
         Len(Chain(fat, FirstOf(disk, x), NumDataClusters + 1)) + SumOver(fat, disk, S \ {x})

FreeCount(fat) == Cardinality({c \in Clusters : fat[c] = FAT_ENTRY_FREE})

Mutations == {"mkdir", "create", "unlink", "write", "append"}
CoreOps == Mutations \cup {"read"}

(***************************************************************************)
(* C1: after format, whatever load, mkdir, create, unlink, read, write and *)
(* append calls follow, FAT[0] is the boot marker, FAT[1..8] are reserved  *)
(* and FAT[9] is end-of-chain.                                             *)
(***************************************************************************)
C1_SystemRegion ==
    g_partition_file =>
        /\ g_fat_table[BOOT_BLOCK_CLUSTER] = FAT_ENTRY_BOOT
        /\ \A e \in FAT_CLUSTER_START .. (FAT_CLUSTER_START + FAT_CLUSTER_COUNT - 1) :
              g_fat_table[e] = FAT_ENTRY_RESERVED
        /\ g_fat_table[ROOT_DIR_CLUSTER] = FAT_ENTRY_EOF

(***************************************************************************)
(* C2: on a loaded file system no data cluster is on the chains of two     *)
(* occupied directory entries, nor twice on one chain.                     *)
(***************************************************************************)
C2_NoAliasing ==
    fs_loaded =>
        /\ \A x \in Occupied(partition) :
              LET ch == Chain(g_fat_table, FirstOf(partition, x), NumDataClusters + 1)
              IN  \A j, k \in 1 .. Len(ch) : j # k => ch[j] # ch[k]
        /\ \A x, y \in Occupied(partition) :
              x # y => ChainSet(g_fat_table, FirstOf(partition, x))
                           \cap ChainSet(g_fat_table, FirstOf(partition, y)) = {}

(***************************************************************************)
(* C3: on a loaded file system the chain of every occupied directory entry *)
(* reaches end-of-chain within as many steps as there are data clusters,   *)
(* through data clusters only, none of them Free.                          *)
(***************************************************************************)
C3_NoDangling ==
    fs_loaded =>
        \A x \in Occupied(partition) :
            ChainEnds(g_fat_table, FirstOf(partition, x), NumDataClusters)

(***************************************************************************)
(* C4: on a loaded file system, when every command since format succeeded, *)
(* the Free entries are all the clusters but the 9 reserved ones, the root *)
(* and the clusters on the chains of the occupied directory entries.       *)
(***************************************************************************)
C4_FreeAccounting ==
    (fs_loaded /\ ~failed) =>
        FreeCount(g_fat_table) =
            CLUSTER_COUNT - (DATA_CLUSTER_START
                             + SumOver(g_fat_table, partition, Occupied(partition)))

(***************************************************************************)
(* C5: right after a successful write(p, B), read(p) succeeds and emits    *)
(* exactly B.                                                              *)
(***************************************************************************)
C5_WriteReadRoundTrip ==
    (ret.op = "write" /\ ret.rc = 0) =>
        /\ fs_read(g_fat_table, partition, ret.path).rc = 0
        /\ fs_read(g_fat_table, partition, ret.path).out = ret.content

(***************************************************************************)
(* C6: a successful append(p, B) of a non-empty B makes read(p) emit what  *)
(* it emitted before, followed by B.                                       *)
(***************************************************************************)
C6_AppendLaw ==
    [][(ret'.op = "append" /\ ret'.rc = 0 /\ ret'.content # <<>>) =>
          /\ fs_read(g_fat_table', partition', ret'.path).rc = 0
          /\ fs_read(g_fat_table', partition', ret'.path).out =
                fs_read(g_fat_table, partition, ret'.path).out \o ret'.content]_vars

(***************************************************************************)
(* C7: a write(p, B) that fails with no-space leaves the size in p's       *)
(* directory entry as it was and leaves no cluster allocated that was Free *)
(* before the call.                                                        *)
(***************************************************************************)
C7_WriteRollback ==
    [][(ret'.op = "write" /\ ret'.err = "nospace") =>
          /\ find_entry_by_path(partition', ret'.path).found
          /\ find_entry_by_path(partition', ret'.path).size =
                find_entry_by_path(partition, ret'.path).size
          /\ \A c \in Clusters :
                g_fat_table[c] = FAT_ENTRY_FREE => g_fat_table'[c] = FAT_ENTRY_FREE]_vars

(***************************************************************************)
(* C8: while the file system is not loaded, mkdir, create, unlink, read,   *)
(* write and append fail and change neither the table nor the partition;   *)
(* only a successful load makes it loaded, and every format makes it not   *)
(* loaded.                                                                 *)
(***************************************************************************)
C8_LoadedGate ==
    [][/\ (~fs_loaded /\ ret'.op \in CoreOps) =>
             (ret'.rc # 0 /\ UNCHANGED <<g_fat_table, partition, fs_loaded>>)
       /\ (~fs_loaded /\ fs_loaded') => (ret'.op = "load" /\ ret'.rc = 0)
       /\ (ret'.op = "format" /\ ret'.rc = 0) => ~fs_loaded']_vars

C8_Witness ==
    /\ g_partition_file
    /\ ~fs_loaded
    /\ ret.op = "write"
    /\ ret.err = "notloaded"
    /\ g_fat_table = FormatFat

C10_UnlinkFreesChain ==
    [][(ret'.op = "unlink" /\ ret'.rc = 0) =>
          LET ch == ChainSet(g_fat_table,
                             find_entry_by_path(partition, ret'.path).first_block)
          IN  \A c \in Clusters :
                 IF c \in ch
                 THEN /\ g_fat_table'[c] = FAT_ENTRY_FREE
                      /\ LoadedFat(partition')[c] = FAT_ENTRY_FREE
                 ELSE /\ g_fat_table'[c] = g_fat_table[c]
                      /\ LoadedFat(partition')[c] = LoadedFat(partition)[c]]_vars

(***************************************************************************)
(* C11: after a successful unlink of the entry in slot s of the parent     *)
(* directory cluster P, the cells of slot s of P on disk are all zero and  *)
(* the cells of the other slots of P are what they were.                   *)
(***************************************************************************)
C11_UnlinkClearsSlot ==
    [][(ret'.op = "unlink" /\ ret'.rc = 0) =>
          LET r == find_entry_by_path(partition, ret'.path)
              P == r.parent_cluster
              s == r.entry_index
          IN  \A k \in 1 .. CLUSTER_SIZE :
                 IF k > SlotBase(s) /\ k <= SlotBase(s) + DIR_ENTRY_SIZE
                 THEN partition'[P][k] = 0
                 ELSE partition'[P][k] = partition[P][k]]_vars

(***************************************************************************)
(* C12: mkdir or create into a directory whose slots are all occupied      *)
(* fails with directory-full, and into a directory with a free slot when   *)
(* no data cluster is Free fails with no-space; either way g_fat_table and *)
(* every cell of the partition are unchanged, and the full directory still *)
(* has all its slots occupied.                                             *)
(***************************************************************************)
C12_FullOrNoSpace ==
    [][(fs_loaded /\ ret'.op \in {"mkdir", "create"} /\ Strrchr(ret'.path) # 0) =>
          LET parent == find_entry_by_path(partition, ParentPath(ret'.path))
              isdir == /\ parent.rc = 0
                       /\ parent.found
                       /\ parent.attributes = ATTR_DIRECTORY
                       /\ parent.entry_cluster \in Clusters
              occ == {i \in Slots : EntryName0(partition[parent.entry_cluster], i) # 0}
              full == \A c \in DataClusters : g_fat_table[c] # FAT_ENTRY_FREE
          IN  isdir =>
                 /\ (occ = Slots) =>
                        /\ ret'.rc # 0
                        /\ ret'.err = "dirfull"
                        /\ UNCHANGED <<g_fat_table, partition>>
                        /\ \A i \in Slots :
                              EntryName0(partition'[parent.entry_cluster], i) # 0
                 /\ (occ # Slots /\ full) =>
                        /\ ret'.rc # 0
                        /\ ret'.err = "nospace"
                        /\ UNCHANGED <<g_fat_table, partition>>]_vars

\* create into /a, which has a free slot, refused for lack of space while the
\* root directory is full
C12_Witness ==
    /\ fs_loaded
    /\ ret.op = "create"
    /\ ret.path = PathAA
    /\ ret.err = "nospace"
    /\ find_entry_by_path(partition, PathA).attributes = ATTR_DIRECTORY
    /\ \E i \in Slots : EntryName0(partition[find_entry_by_path(partition, PathA).entry_cluster], i) = 0
    /\ \A i \in Slots : EntryName0(partition[ROOT_DIR_CLUSTER], i) # 0

(***************************************************************************)
(* C13: unlink of a directory with an occupied slot fails with             *)
(* directory-not-empty and changes neither g_fat_table nor any cell of the *)
(* partition (the directory's entry in its parent included).               *)
(***************************************************************************)
C13_UnlinkNotEmpty ==
    [][(fs_loaded /\ ret'.op = "unlink") =>
          LET r == find_entry_by_path(partition, ret'.path) IN
          (/\ r.rc = 0
           /\ r.found
           /\ r.attributes = ATTR_DIRECTORY
           /\ r.entry_cluster \in Clusters
           /\ \E i \in Slots : EntryName0(partition[r.entry_cluster], i) # 0) =>
              /\ ret'.rc # 0
              /\ ret'.err = "notempty"
              /\ UNCHANGED <<g_fat_table, partition>>]_vars

\* unlink of /a refused while /a/a exists
C13_Witness ==
    /\ fs_loaded
    /\ ret.op = "unlink"
    /\ ret.path = PathA
    /\ ret.err = "notempty"
    /\ find_entry_by_path(partition, PathA).attributes = ATTR_DIRECTORY
    /\ find_entry_by_path(partition, PathAA).found

(***************************************************************************)
(* C14: read, write and append on a path that does not resolve, or that    *)
(* resolves to a directory, return an error and change neither g_fat_table *)
(* nor any cell of the partition.                                          *)
(***************************************************************************)
C14_NotAFile ==
    [][(fs_loaded /\ ret'.op \in {"read", "write", "append"}) =>
          LET r == find_entry_by_path(partition, ret'.path) IN
          (r.rc # 0 \/ ~r.found \/ r.attributes = ATTR_DIRECTORY) =>
              /\ ret'.rc # 0
              /\ UNCHANGED <<g_fat_table, partition>>]_vars

\* a write to the directory /a was refused
C14_Witness ==
    /\ fs_loaded
    /\ ret.op = "write"
    /\ ret.path = PathA
    /\ ret.content # <<>>
    /\ ret.rc # 0
    /\ find_entry_by_path(partition, PathA).found
    /\ find_entry_by_path(partition, PathA).attributes = ATTR_DIRECTORY

(***************************************************************************)
(* C15: mkdir("/") and create("/") fail with invalid-argument: they return *)
(* an error, allocate no cluster and write no directory slot.              *)
(***************************************************************************)
C15_RootIsInvalid ==
    [][(fs_loaded /\ ret'.op \in {"mkdir", "create"} /\ ret'.path = Root) =>
          /\ ret'.rc # 0
          /\ ret'.err = "invalid"
          /\ UNCHANGED <<g_fat_table, partition>>]_vars

(***************************************************************************)
(* C16: unlink("/") on a loaded file system returns an error, whether the  *)
(* root directory is empty or not; FAT[9] stays end-of-chain and the root  *)
(* cluster, g_fat_table and the FAT region are unchanged.                  *)
(***************************************************************************)
C16_RootNotUnlinked ==
    [][(fs_loaded /\ ret'.op = "unlink" /\ ret'.path = Root) =>
          /\ ret'.rc # 0
          /\ g_fat_table'[ROOT_DIR_CLUSTER] = FAT_ENTRY_EOF
          /\ partition'[ROOT_DIR_CLUSTER] = partition[ROOT_DIR_CLUSTER]
          /\ g_fat_table' = g_fat_table
          /\ LoadedFat(partition') = LoadedFat(partition)]_vars

(***************************************************************************)
(* C17: whatever the state format is called in, it leaves the same         *)
(* partition and the same g_fat_table: the boot cluster all 0xBB, entry 0  *)
(* the boot marker, entries 1..8 reserved, entry 9 end-of-chain and every  *)
(* other entry Free, the FAT region holding that table, the root cluster   *)
(* and the data area all zero; a format right after a format changes no    *)
(* cell of the partition.                                                  *)
(***************************************************************************)
Formatted(fat, disk) ==
    /\ \A k \in 1 .. CLUSTER_SIZE : disk[BOOT_BLOCK_CLUSTER][k] = 187
    /\ \A e \in Clusters :
          /\ fat[e] = IF e = 0 THEN 65533
                      ELSE IF e \in 1 .. 8 THEN 65534
                      ELSE IF e = 9 THEN 65535 ELSE 0
          /\ disk[FAT_CLUSTER_START + (e \div CLUSTER_SIZE)][(e % CLUSTER_SIZE) + 1] = fat[e]
    /\ \A c \in ROOT_DIR_CLUSTER .. (CLUSTER_COUNT - 1) :
          \A k \in 1 .. CLUSTER_SIZE : disk[c][k] = 0

C17_FormatIdempotent ==
    [][(ret'.op = "format" /\ ret'.rc = 0) =>
          /\ Formatted(g_fat_table', partition')
          /\ (ret.op = "format" /\ ret.rc = 0) => partition' = partition]_vars

\* a format as the last command of a session of full length
C17_Witness ==
    /\ ret.op = "format"
    /\ ret.rc = 0
    /\ steps = MaxOps
    /\ ~fs_loaded
    /\ Formatted(g_fat_table, partition)

(***************************************************************************)
(* C18: after a successful mkdir(p) the parent directory has an entry      *)
(* named as p's last component (as stored: cut to the name field), of kind *)
(* directory and size 0, whose first_block is a cluster with an            *)
(* end-of-chain FAT entry and with every slot empty on disk.               *)
(***************************************************************************)
StoredName(name) == SubSeq(name, 1, Min(Len(name), NameField - 1))

C18_MkdirEmptyDir ==
    [][(ret'.op = "mkdir" /\ ret'.rc = 0) =>
          LET P == find_entry_by_path(partition, ParentPath(ret'.path)).entry_cluster
          IN  \E i \in Slots :
                 LET c == EntryFirst(partition'[P], i) IN
                 /\ StrcmpEq(partition'[P], i, StoredName(NewName(ret'.path)))
                 /\ EntryAttr(partition'[P], i) = ATTR_DIRECTORY
                 /\ EntrySize(partition'[P], i) = 0
                 /\ c \in Clusters
                 /\ g_fat_table'[c] = FAT_ENTRY_EOF
                 /\ \A j \in Slots : EntryName0(partition'[c], j) = 0]_vars

(***************************************************************************)
(* C19: when append(p, B) fails with no-space, the size in p's directory   *)
(* entry is what it was, and the clusters the call allocated (Free before, *)
(* not Free after) are on the chain of no occupied directory entry: they   *)
(* are leaked.                                                             *)
(***************************************************************************)
C19_AppendLeak ==
    [][(ret'.op = "append" /\ ret'.err = "nospace") =>
          LET r == find_entry_by_path(partition, ret'.path)
              new == {c \in Clusters : g_fat_table[c] = FAT_ENTRY_FREE
                                        /\ g_fat_table'[c] # FAT_ENTRY_FREE}
          IN  /\ EntrySize(partition'[r.parent_cluster], r.entry_index) = r.size
              /\ \A x \in Occupied(partition') :
                    ChainSet(g_fat_table', FirstOf(partition', x)) \cap new = {}]_vars

(***************************************************************************)
(* C20: every successful mkdir, create, unlink, write and append writes    *)
(* the parent directory cluster before any cluster of the FAT region, and  *)
(* then writes the 8 FAT clusters in index order as its last writes.       *)
(***************************************************************************)
ResultOf(op, fat, disk, path, content, u) ==
    IF op = "mkdir" THEN fs_mkdir(fat, disk, path)
    ELSE IF op = "create" THEN fs_create(fat, disk, path)
    ELSE IF op = "unlink" THEN fs_unlink(fat, disk, path, u)
    ELSE IF op = "write" THEN fs_write(fat, disk, path, content, u)
    ELSE fs_append(fat, disk, path, content, u)

WritesOf(op, fat, disk, path, content, u) ==
    IF op = "mkdir" THEN mkdir_writes(fat, disk, path)
    ELSE IF op = "create" THEN create_writes(fat, disk, path)
    ELSE IF op = "unlink" THEN unlink_writes(fat, disk, path, u)
    ELSE IF op = "write" THEN write_writes(fat, disk, path, content, u)
    ELSE append_writes(fat, disk, path, content, u)

ParentOf(op, disk, path) ==
    IF op \in {"mkdir", "create"}
    THEN find_entry_by_path(disk, ParentPath(path)).entry_cluster
    ELSE find_entry_by_path(disk, path).parent_cluster

\* the parent cluster P is written before any FAT cluster, and the log ends
\* with the FAT clusters in index order
ParentThenFat(log, P) ==
    LET n == Len(log) - FAT_CLUSTER_COUNT IN
    /\ n >= 1
    /\ \A i \in 1 .. FAT_CLUSTER_COUNT : log[n + i] = FAT_CLUSTER_START + (i - 1)
    /\ \E k \in 1 .. n :
          /\ log[k] = P
          /\ \A j \in 1 .. (k - 1) :
                log[j] \notin FAT_CLUSTER_START .. (FAT_CLUSTER_START + FAT_CLUSTER_COUNT - 1)

\* the step is a call of ret'.op that took the outcome u where it left the
\* table (a call that stayed inside the table does not depend on u)
TookOutcome(u) ==
    LET r == ResultOf(ret'.op, g_fat_table, partition, ret'.path, ret'.content, u) IN
    /\ r.fate = "returned"
    /\ r.rc = ret'.rc
    /\ r.fat = g_fat_table'
    /\ r.disk = partition'

C21_WriteFailKeepsMirror ==
    [][(ret'.op = "write" /\ ret'.err = "nospace") =>
          LET before == find_entry_by_path(partition, ret'.path)
              after == find_entry_by_path(partition', ret'.path)
          IN  /\ g_fat_table' = g_fat_table
              /\ after.found
              /\ after.first_block = before.first_block
              /\ after.first_block \in Clusters
              /\ g_fat_table'[after.first_block] # FAT_ENTRY_FREE
              /\ fs_read(g_fat_table', partition', ret'.path).rc =
                    fs_read(g_fat_table, partition, ret'.path).rc
              /\ fs_read(g_fat_table', partition', ret'.path).out =
                    fs_read(g_fat_table, partition, ret'.path).out]_vars

(***************************************************************************)
(* C22: after format and load, whatever commands came before (failed ones  *)
(* included), every read, append, write and unlink returns, and none of    *)
(* them indexes g_fat_table outside the table.                             *)
(***************************************************************************)
C22_TerminatesInRange ==
    (fs_loaded /\ ret.op \in {"read", "append", "write", "unlink"}) =>
        /\ proc = "running"
        /\ ~ret.oob

(***************************************************************************)
(* C23: on a loaded file system, when mkdir, create, unlink, read, write   *)
(* or append has returned, with success or with an error, the FAT region   *)
(* of the partition holds exactly g_fat_table.                             *)
(***************************************************************************)
C23_DiskFatIsMirror ==
    (fs_loaded /\ proc = "running" /\ ret.op \in CoreOps) =>
        LoadedFat(partition) = g_fat_table

(***************************************************************************)
(* C24: on a loaded file system, after whatever commands (an append that   *)
(* failed with no-space included), the chain of every occupied entry of    *)
(* kind regular file has exactly max(1, ceil(size / CLUSTER_SIZE))         *)
(* clusters, the chain of every occupied entry of kind directory has       *)
(* exactly 1, and the FAT entry of the last cluster is end-of-chain.       *)
(***************************************************************************)
ClustersFor(size) ==
    IF size = 0 THEN 1 ELSE (size + CLUSTER_SIZE - 1) \div CLUSTER_SIZE

C24_ChainLength ==
    (fs_loaded /\ proc = "running") =>
        \A x \in Occupied(partition) :
            LET ch == Chain(g_fat_table, FirstOf(partition, x), NumDataClusters + 1)
                n == IF EntryAttr(partition[x[1]], x[2]) = ATTR_DIRECTORY THEN 1
                     ELSE ClustersFor(EntrySize(partition[x[1]], x[2]))
            IN  /\ Len(ch) = n
                /\ g_fat_table[ch[n]] = FAT_ENTRY_EOF

(***************************************************************************)
(* C25: a successful write, append or unlink on path p leaves, for every   *)
(* path q that resolved before the call to another directory entry than    *)
(* p's and that does not lead through p, q resolving to an entry of the    *)
(* same kind, size and first_block, the same clusters on q's chain with    *)
(* the same FAT entries, and read(q) returning and emitting what it did.   *)
(***************************************************************************)
AllPaths == Paths \cup DeepPaths \cup PunPaths

SameEntry(r1, r2) ==
    /\ r1.parent_cluster = r2.parent_cluster
    /\ r1.entry_index = r2.entry_index

\* the components of p are the first components of q
LeadsThrough(q, p) ==
    /\ Len(Strtok(p)) <= Len(Strtok(q))
    /\ SubSeq(Strtok(q), 1, Len(Strtok(p))) = Strtok(p)

C25_Frame ==
    [][(ret'.op \in {"write", "append", "unlink"} /\ ret'.rc = 0) =>
          \A q \in AllPaths \ {Root, ret'.path} :
             LET rp == find_entry_by_path(partition, ret'.path)
                 rq == find_entry_by_path(partition, q)
                 rq2 == find_entry_by_path(partition', q)
                 ch == Chain(g_fat_table, rq.first_block, NumDataClusters + 1)
             IN  (/\ rq.rc = 0
                  /\ rq.found
                  /\ ~SameEntry(rp, rq)
                  /\ ~LeadsThrough(q, ret'.path)) =>
                    /\ rq2.rc = 0
                    /\ rq2.found
                    /\ rq2.attributes = rq.attributes
                    /\ rq2.size = rq.size
                    /\ rq2.first_block = rq.first_block
                    /\ Chain(g_fat_table', rq2.first_block, NumDataClusters + 1) = ch
                    /\ \A k \in 1 .. Len(ch) : g_fat_table'[ch[k]] = g_fat_table[ch[k]]
                    /\ fs_read(g_fat_table', partition', q).rc =
                          fs_read(g_fat_table, partition, q).rc
                    /\ fs_read(g_fat_table', partition', q).out =
                          fs_read(g_fat_table, partition, q).out]_vars

(***************************************************************************)
(* C26: right after a successful unlink(p), p other than "/", resolving p  *)
(* reports not-found, and read and unlink of p fail.                       *)
(***************************************************************************)
C26_UnlinkedNotFound ==
    [][(ret'.op = "unlink" /\ ret'.rc = 0 /\ ret'.path # Root) =>
          /\ ~find_entry_by_path(partition', ret'.path).found
          /\ fs_read(g_fat_table', partition', ret'.path).rc # 0
          /\ fs_unlink(g_fat_table', partition', ret'.path, -1).rc # 0]_vars

(***************************************************************************)
(* C27: right after a successful create(p) (mkdir(p)), resolving p reports *)
(* found, of kind regular file (directory) and of size 0, whatever path    *)
(* was accepted: a last component longer than the name field stores, an    *)
(* empty last component, a name the parent already holds.                  *)
(***************************************************************************)
C27_CreatedResolves ==
    [][(ret'.op \in {"create", "mkdir"} /\ ret'.rc = 0) =>
          LET r == find_entry_by_path(partition', ret'.path) IN
          /\ r.rc = 0
          /\ r.found
          /\ r.attributes = (IF ret'.op = "mkdir" THEN ATTR_DIRECTORY ELSE ATTR_ARCHIVE)
          /\ r.size = 0]_vars

(***************************************************************************)
(* C28: on a loaded file system, a path one of whose components before the *)
(* last resolves to an entry that is not a directory does not resolve.     *)
(***************************************************************************)
\* the path of the first k components of toks
RECURSIVE PathOf(_, _)
PathOf(toks, k) ==
    IF k = 0 THEN <<>> ELSE PathOf(toks, k - 1) \o <<Slash>> \o toks[k]

C28_OnlyThroughDirectories ==
    fs_loaded =>
        \A q \in AllPaths :
            \A k \in 1 .. (Len(Strtok(q)) - 1) :
                LET r == find_entry_by_path(partition, PathOf(Strtok(q), k)) IN
                (r.rc = 0 /\ r.found /\ r.attributes # ATTR_DIRECTORY) =>
                    ~find_entry_by_path(partition, q).found

(***************************************************************************)
(* C29: on a loaded file system, free_cluster_chain called with the        *)
(* first_block of the entry any path resolves to returns without indexing  *)
(* g_fat_table outside the table, makes Free exactly the entries of the    *)
(* walk from that first_block that stops at 0 and at any value from 0xFFFD *)
(* on, and leaves every entry below DATA_CLUSTER_START as it was.          *)
(***************************************************************************)
\* the entries met from c, stopping at 0 and at the sentinels
RECURSIVE Visited(_, _, _)
Visited(fat, c, n) ==
    IF n = 0 \/ c = 0 \/ c >= FAT_ENTRY_BOOT \/ c \notin Clusters THEN {}
    ELSE {c} \cup Visited(fat, fat[c], n - 1)

C29_FreeChain ==
    fs_loaded =>
        \A q \in AllPaths :
            LET r == find_entry_by_path(partition, q)
                fr == free_cluster_chain(g_fat_table, r.first_block, -1)
                seen == Visited(g_fat_table, r.first_block, CLUSTER_COUNT)
            IN  (r.rc = 0 /\ r.found) =>
                   /\ fr.fate = "returned"
                   /\ ~fr.oob
                   /\ \A e \in Clusters :
                         fr.fat[e] = IF e \in seen THEN FAT_ENTRY_FREE ELSE g_fat_table[e]
                   /\ \A e \in 0 .. (DATA_CLUSTER_START - 1) : fr.fat[e] = g_fat_table[e]

(***************************************************************************)
(* C30: mkdir or create of a name the parent directory already holds, when *)
(* the parent has a free slot and a data cluster is Free, succeeds; the    *)
(* parent then has one more occupied slot of that name, of the kind asked  *)
(* for, whose first_block is a cluster that was Free before the call, is   *)
(* end-of-chain after it and is not the first_block of another slot of     *)
(* that name; resolving the path returns the lowest matching slot.         *)
(***************************************************************************)
\* the step is a mkdir or create of a name the parent directory holds
DuplicateCall ==
    /\ fs_loaded
    /\ ret'.op \in {"mkdir", "create"}
    /\ Strrchr(ret'.path) # 0
    /\ LET parent == find_entry_by_path(partition, ParentPath(ret'.path)) IN
        /\ parent.rc = 0
        /\ parent.found
        /\ parent.attributes = ATTR_DIRECTORY
        /\ parent.entry_cluster \in Clusters
        /\ MatchingSlots(partition[parent.entry_cluster], NewName(ret'.path)) # {}

HasRoom ==
    LET P == find_entry_by_path(partition, ParentPath(ret'.path)).entry_cluster IN
    /\ \E i \in Slots : EntryName0(partition[P], i) = 0
    /\ \E c \in DataClusters : g_fat_table[c] = FAT_ENTRY_FREE

DuplicateMade ==
    LET P == find_entry_by_path(partition, ParentPath(ret'.path)).entry_cluster
        old == MatchingSlots(partition[P], NewName(ret'.path))
        new == MatchingSlots(partition'[P], NewName(ret'.path))
    IN  /\ ret'.rc = 0
        /\ old \subseteq new
        /\ \E i \in new \ old :
              LET c == EntryFirst(partition'[P], i) IN
              /\ new = old \cup {i}
              /\ EntryName0(partition[P], i) = 0
              /\ EntryAttr(partition'[P], i) =
                    (IF ret'.op = "mkdir" THEN ATTR_DIRECTORY ELSE ATTR_ARCHIVE)
              /\ c \in DataClusters
              /\ g_fat_table[c] = FAT_ENTRY_FREE
              /\ g_fat_table'[c] = FAT_ENTRY_EOF
              /\ \A j \in old : EntryFirst(partition'[P], j) # c
        /\ find_entry_by_path(partition', ret'.path).found
        /\ find_entry_by_path(partition', ret'.path).parent_cluster = P
        /\ find_entry_by_path(partition', ret'.path).entry_index = LowestSlot(new)

C30_DuplicateSlot ==
    [][(DuplicateCall /\ HasRoom) => DuplicateMade]_vars

(***************************************************************************)
(* C31: when the resolver finds no match for a component of a path, it     *)
(* returns found = false with parent_cluster the cluster of the directory  *)
(* it searched for that component (the root cluster when the first         *)
(* component is the missing one).                                          *)
(***************************************************************************)
\* the first component of toks that does not resolve
MissAt(disk, toks) ==
    CHOOSE k \in 1 .. Len(toks) :
        /\ ~find_entry_by_path(disk, PathOf(toks, k)).found
        /\ \A j \in 1 .. (k - 1) : find_entry_by_path(disk, PathOf(toks, j)).found

\* the cluster read as the directory of component j
SearchedFor(disk, toks, j) ==
    IF j = 1 THEN ROOT_DIR_CLUSTER
    ELSE find_entry_by_path(disk, PathOf(toks, j - 1)).entry_cluster

Missed(disk, q) ==
    /\ Strtok(q) # <<>>
    /\ find_entry_by_path(disk, q).rc = 0
    /\ ~find_entry_by_path(disk, q).found

C31_MissParentSearched ==
    g_partition_file =>
        \A q \in AllPaths :
            Missed(partition, q) =>
                find_entry_by_path(partition, q).parent_cluster =
                    SearchedFor(partition, Strtok(q), MissAt(partition, Strtok(q)))

(***************************************************************************)
(* C31 amended: when the resolver finds no match for a component of a      *)
(* path, it returns found = false with parent_cluster the cluster of the   *)
(* directory in which it matched the component before (the root cluster    *)
(* when the missing component is the first or the second one).             *)
(***************************************************************************)
C31_MissParentOfLastMatch ==
    g_partition_file =>
        \A q \in AllPaths :
            Missed(partition, q) =>
                LET k == MissAt(partition, Strtok(q)) IN
                find_entry_by_path(partition, q).parent_cluster =
                    (IF k = 1 THEN ROOT_DIR_CLUSTER
                     ELSE SearchedFor(partition, Strtok(q), k - 1))

\* read /a/a reported not-found in the directory /a, which is not the root
C31_Witness ==
    /\ fs_loaded
    /\ ret.op = "read"
    /\ ret.path = PathAA
    /\ ret.err = "noent"
    /\ find_entry_by_path(partition, PathA).found
    /\ find_entry_by_path(partition, PathA).attributes = ATTR_DIRECTORY
    /\ find_entry_by_path(partition, PathA).entry_cluster # ROOT_DIR_CLUSTER
    /\ Missed(partition, PathAA)
    /\ find_entry_by_path(partition, PathAA).parent_cluster = ROOT_DIR_CLUSTER

====
